---- MODULE Spec2Model ----
(***************************************************************************)
(* iron-session (post-quantum seal variant): the seal / unseal engine of   *)
(* src/src/core.ts and the session lifecycle built on it (getIronSession,  *)
(* save, destroy, updateConfig) over both transports.                      *)
(*                                                                         *)
(* Byte strings are symbolic: a key, a ciphertext or a signature is a      *)
(* record that says how it was made, and the primitives of                 *)
(* @noble/post-quantum, WebCrypto AES-GCM, rfc4648 and JSON act on these   *)
(* records by their contracts (lengths are the FIPS 203 / FIPS 204         *)
(* parameter sizes).  Strings whose content matters only through their     *)
(* length carry that length.                                               *)
(***************************************************************************)
EXTENDS Integers, Sequences, FiniteSets, TLC

VARIABLES
    \* ---- seal engine harness (sealData / unsealData called directly) ----
    token,        \* the seal string under test, or NoToken
    origin,       \* "none" | "sealData" | "forged": where token came from
    altered,      \* what was changed in token after sealData returned it
    sealIn,       \* the (data, password) of the sealData call that made token
    unsealPw,     \* the password of the last unsealData call
    unsealOut,    \* the outcome of the last unsealData call, or NoOutcome
    nSeals,       \* number of sealData calls so far (the source of fresh randomness)
    \* ---- session lifecycle (one request) ----
    transport,    \* "reqres" | "store": which overload of getIronSession
    resKind,      \* "node" | "fetch": the response object's flavour (reqres)
    headersSent,  \* res.headersSent
    inbound,      \* the inbound cookie value for the configured name, or NoToken
    options,      \* the SessionOptions passed to getIronSession
    pc,           \* "unloaded" | "loaded" | "failed"
    session,      \* the session's own enumerable fields (a function), once loaded
    loadedFields, \* the fields the session had when getIronSession returned
    sessionConfig,\* the closed-over resolved configuration
    emitted,      \* cookies written to the response / cookie store, in order
    lastOp,       \* the last operation called and its outcome
    sealArg,      \* the value handed to sealData by the last call, if it was save()
    unsealCalled, \* whether getIronSession called unsealData
    sinceDestroy, \* the fields written since the last destroy(), if there was one
    priorHeader,  \* the response's set-cookie header before the session wrote to it
    header        \* the response's set-cookie header

sealVars == <<token, origin, altered, sealIn, unsealPw, unsealOut, nSeals>>
lifeVars == <<transport, resKind, headersSent, inbound, options, pc, session,
              loadedFields, sessionConfig, emitted, lastOp, sealArg,
              unsealCalled, sinceDestroy, priorHeader, header>>
vars == <<sealVars, lifeVars>>

----------------------------------------------------------------------------
\* Bounds of the model

\* sealData calls in one behaviour of the seal harness
MaxSeals == 2
\* cookies written to one response / cookie store
MaxEmitted == 2

----------------------------------------------------------------------------
\* Program constants (core.ts) and the sizes of the primitives it calls

timestampSkewSec == 60
fourteenDaysInSeconds == 14 * 24 * 3600
currentMajorVersion == 2
versionDelimiter == "~"
\* the browser limit both save() implementations compare against
MaxCookieLength == 4096
\* 2147483647, the value computeCookieMaxAge returns for ttl = 0
MaxCookieMaxAge == 2147483647
\* the shortest accepted secret
MinPasswordLength == 32

\* ML-KEM-1024 (FIPS 203): encapsulation key, decapsulation key, ciphertext
MlKem1024PublicKeyBytes == 1568
MlKem1024SecretKeyBytes == 3168
MlKem1024CipherTextBytes == 1568
\* ML-DSA-87 (FIPS 204): public key and signature
MlDsa87PublicKeyBytes == 2592
MlDsa87SignatureBytes == 4627
\* AES-GCM appends a 128-bit tag to the ciphertext
AesGcmTagBytes == 16

----------------------------------------------------------------------------
\* JavaScript values and outcomes

Nothing == [t |-> "undefined"]
NoToken == [t |-> "none"]
NoValue == [t |-> "nothing"]
NoOutcome == [kind |-> "none"]
NoError == [name |-> "none", message |-> <<>>]

\* own enumerable fields of a session object: field name -> value
FieldNames == {"userId", "role"}
FieldValues == {42, 7}
EmptyFields == <<>>
AllFieldMaps == UNION {[D -> FieldValues] : D \in SUBSET FieldNames}

JsObject(f) == [t |-> "object", fields |-> f]
EmptyObject == JsObject(EmptyFields)

Return(v) == [kind |-> "return", value |-> v, error |-> NoError]
Throw(n, m) == [kind |-> "throw", value |-> Nothing,
                error |-> [name |-> n, message |-> m]]

\* error messages are sequences of words; the ones the program can meet
MsgInvalidSignature == <<"Invalid", "signature">>
MsgMissingSealData == <<"Invalid", "seal", "format", ":", "missing", "seal", "data">>
MsgB64InvalidCharacter == <<"Invalid", "character">>
MsgJsonUnexpectedToken == <<"Unexpected", "token">>
MsgCannotReadProperty == <<"Cannot", "read", "properties", "of", "null">>
MsgNotAString == <<"Cannot", "read", "properties", "of", "undefined">>
MsgExpectedLength == <<"Uint8Array", "expected", "of", "length">>
MsgOperationFailed == <<"The", "operation", "failed">>

----------------------------------------------------------------------------
\* Lengths

RECURSIVE Digits(_)
Digits(n) == IF n < 10 THEN 1 ELSE 1 + Digits(n \div 10)

\* rfc4648 base64url.stringify pads with "=": 4 characters per 3 bytes
Base64Len(n) == ((n + 2) \div 3) * 4
Base64Pad(n) == (3 - (n % 3)) % 3

NameLen(f) == CASE f = "userId" -> 6 [] f = "role" -> 4

RECURSIVE EntriesLen(_, _)
EntriesLen(f, D) ==
    IF D = {} THEN 0
    ELSE LET k == CHOOSE k \in D : TRUE
         IN  NameLen(k) + 3 + Digits(f[k]) + EntriesLen(f, D \ {k})

\* JSON.stringify of an object of number fields: {"k":v,"k":v}
JsonLen(f) ==
    LET n == Cardinality(DOMAIN f)
    IN  2 + EntriesLen(f, DOMAIN f) + (IF n > 1 THEN n - 1 ELSE 0)

----------------------------------------------------------------------------
\* Passwords

\* A is "x".repeat(32); B is a longer secret; S is one character short
SecretLen(s) == CASE s = "A" -> 32 [] s = "B" -> 40 [] s = "S" -> 31

StringPassword(s) == [form |-> "string", secret |-> s, map |-> <<>>]
MapPassword(m) == [form |-> "map", secret |-> "", map |-> m]
MissingPassword == [form |-> "missing", secret |-> "", map |-> <<>>]

PwA == StringPassword("A")
PwA1 == MapPassword(<<"A">>)
PwA1B2 == MapPassword(<<"A", "B">>)
PwB1 == MapPassword(<<"B">>)
PwB == StringPassword("B")
PwS == StringPassword("S")

ValidPasswords == {PwA, PwA1, PwA1B2, PwB1, PwB}

\* core.ts 140-142
normalizeStringPasswordToMap(password) ==
    IF password.form = "string" THEN <<password.secret>> ELSE password.map

SecretsOf(password) ==
    LET m == normalizeStringPasswordToMap(password)
    IN  {m[i] : i \in DOMAIN m}

\* the secret at the highest key id of a password set
CurrentSecret(password) ==
    LET m == normalizeStringPasswordToMap(password)
    IN  m[Len(m)]

----------------------------------------------------------------------------
\* The primitives, by their contracts

\* ml_kem1024.keygen(seed): the public key of key pair k (the secret key is dropped
\* by sealData)
KemPublicKey(k) == [kem |-> k, flipped |-> FALSE]
\* ml_kem1024.encapsulate(publicKey).sharedSecret; the KEM ciphertext it returns
\* with it is dropped by sealData
SharedSecret(k) == [of |-> "encapsulate", kem |-> k]
\* what decapsulate returns for a ciphertext that is not the encapsulation's
RejectionSecret == [of |-> "reject", kem |-> 0]

\* crypto.subtle.encrypt AES-GCM: ciphertext || tag
AesGcmEncrypt(key, iv, plain) ==
    [key |-> key, iv |-> iv, plain |-> plain, flipped |-> FALSE]
CipherLen(ct) == ct.plain.len + AesGcmTagBytes

\* crypto.subtle.decrypt AES-GCM: the tag verifies only under the same key and
\* nonce over the unchanged ciphertext
AesGcmDecrypt(key, iv, ct) ==
    IF ~ct.flipped /\ ct.key = key /\ ct.iv = iv
    THEN Return(ct.plain)
    ELSE Throw("OperationError", MsgOperationFailed)

\* ml_dsa87 is taken with the argument roles its call sites give it: sign(message,
\* secretKey), verify(message, signature, publicKey)
DsaPublicKey(d) == [dsa |-> d, flipped |-> FALSE]
\* ml_dsa87.sign(message, secretKey of pair d)
DsaSign(msg, d) == [signer |-> d, msg |-> msg, flipped |-> FALSE]
\* ml_dsa87.verify(message, signature, publicKey)
DsaVerify(msg, sig, pk) ==
    /\ ~sig.flipped
    /\ ~pk.flipped
    /\ sig.signer = pk.dsa
    /\ sig.msg = msg

\* ml_kem1024.decapsulate(cipherText, secretKey): both arguments are length-checked
\* before anything is computed
KemDecapsulate(cipherTextLen, secretKeyLen) ==
    IF secretKeyLen # MlKem1024SecretKeyBytes
       \/ cipherTextLen # MlKem1024CipherTextBytes
    THEN Throw("Error", MsgExpectedLength)
    ELSE Return(RejectionSecret)

\* the all-zero nonce of new Uint8Array(12); randomBytes(12) draws nonces 1, 2, ...
ZeroIv == 0

----------------------------------------------------------------------------
\* Seal strings

\* length of JSON.stringify(seal) without its four component strings:
\* {"ciphertext":"","publicKey":"","signature":"","signPublicKey":""}
SealJsonOverhead == 66

\* the text a seal's plaintext decodes to
JsonText(data) == [enc |-> "json", value |-> data, len |-> JsonLen(data.fields)]

NoSeal == [t |-> "none"]

\* a seal string "<payload>~<version>"; version "none" is a string without delimiter.
\* The payload is described by what decoding finds in it.
SealString(class, seal, len, version) ==
    [payload |-> [class |-> class, seal |-> seal, len |-> len], version |-> version]

PayloadLen(seal) ==
    Base64Len(SealJsonOverhead
              + Base64Len(CipherLen(seal.ciphertext))
              + Base64Len(MlKem1024PublicKeyBytes)
              + Base64Len(MlDsa87SignatureBytes)
              + Base64Len(MlDsa87PublicKeyBytes))
PayloadPad(seal) ==
    Base64Pad(SealJsonOverhead
              + Base64Len(CipherLen(seal.ciphertext))
              + Base64Len(MlKem1024PublicKeyBytes)
              + Base64Len(MlDsa87SignatureBytes)
              + Base64Len(MlDsa87PublicKeyBytes))

\* Number.parseInt(_, 10) on the version strings of the model, and its inverse
ParseInt(v) == CASE v = "2" -> 2 [] v = "3" -> 3 [] OTHER -> 0
NumberToString(n) == CASE n = 2 -> "2" [] n = 3 -> "3"

\* the delimiter and the version's digits
VersionLen(v) == IF v = "none" THEN 0 ELSE 1 + Digits(ParseInt(v))
\* seal.length
SealLength(s) == s.payload.len + VersionLen(s.version)
\* number of "=" in the seal string (each becomes %3D in a serialized cookie)
SealPadding(s) ==
    IF s.payload.class = "seal" THEN PayloadPad(s.payload.seal) ELSE 0

\* core.ts 214-266 with the AES key bound to the password set
sealDataPasswordKeyed(data, sealOptions, rnd) ==
    LET publicKey == KemPublicKey(rnd)
        sharedSecret == [of |-> "encapsulate", kem |-> rnd,
                         password |-> sealOptions.password]
        iv == rnd
        dataBytes == JsonText(data)
        encryptedData == AesGcmEncrypt(sharedSecret, iv, dataBytes)
        signPublicKey == DsaPublicKey(rnd)
        signature == DsaSign(encryptedData, rnd)
        seal == [ciphertext |-> encryptedData,
                 publicKey |-> publicKey,
                 signature |-> signature,
                 signPublicKey |-> signPublicKey]
    IN  SealString("seal", seal, PayloadLen(seal), NumberToString(currentMajorVersion))

\* core.ts 214-266; rnd stands for the three randomBytes draws of this call
sealData(data, sealOptions, rnd) ==
    LET publicKey == KemPublicKey(rnd)
        sharedSecret == SharedSecret(rnd)
        iv == rnd
        dataBytes == JsonText(data)
        encryptedData == AesGcmEncrypt(sharedSecret, iv, dataBytes)
        signPublicKey == DsaPublicKey(rnd)
        signature == DsaSign(encryptedData, rnd)
        seal == [ciphertext |-> encryptedData,
                 publicKey |-> publicKey,
                 signature |-> signature,
                 signPublicKey |-> signPublicKey]
    IN  SealString("seal", seal, PayloadLen(seal), NumberToString(currentMajorVersion))

\* String.prototype.split on the delimiter, first two parts
SplitOnDelimiter(s) ==
    IF s.version = "none" THEN <<s.payload>> ELSE <<s.payload, s.version>>

\* core.ts 144-161
parseSeal(seal) ==
    LET parts == SplitOnDelimiter(seal)
        tokenVersion ==
            IF Len(parts) < 2 THEN [isNull |-> TRUE, n |-> 0]
            ELSE [isNull |-> FALSE, n |-> ParseInt(parts[2])]
    IN  IF Len(parts) < 1
        THEN Throw("Error", MsgMissingSealData)
        ELSE Return([sealWithoutVersion |-> parts[1], tokenVersion |-> tokenVersion])

\* core.ts 276-280: base64url.parse(loose), TextDecoder, JSON.parse
DecodePayload(payload) ==
    CASE payload.class = "badBase64" -> Throw("SyntaxError", MsgB64InvalidCharacter)
      [] payload.class = "notJson"   -> Throw("SyntaxError", MsgJsonUnexpectedToken)
      [] payload.class = "empty"     -> Throw("SyntaxError", MsgJsonUnexpectedToken)
      [] OTHER                       -> Return(payload)

\* core.ts 283-286: sealData.<component> and base64url.parse of each
DecodeComponents(payload) ==
    CASE payload.class = "jsonNull" -> Throw("TypeError", MsgCannotReadProperty)
      [] payload.class = "missingComponent" -> Throw("TypeError", MsgNotAString)
      [] OTHER -> Return(payload.seal)

\* core.ts 320-325
RecognizedPrefixes ==
    { <<"Invalid", "signature">>,
      <<"Invalid", "seal", "format">>,
      <<"Bad", "hmac", "value">>,
      <<"Cannot", "find", "password">>,
      <<"Incorrect", "number", "of", "sealed", "components">> }

StartsWith(msg, prefix) ==
    /\ Len(msg) >= Len(prefix)
    /\ SubSeq(msg, 1, Len(prefix)) = prefix

\* core.ts 320-325 without the test of the message
IsSealProblemAny(error) ==
    error.name \in {"Error", "SyntaxError", "TypeError", "RangeError", "OperationError"}

\* core.ts 320-325: error instanceof Error, and the message matches
\* /^(Invalid signature|Invalid seal format|Bad hmac value|Cannot find
\* password|Incorrect number of sealed components)/
IsSealProblem(error) ==
    /\ error.name \in {"Error", "SyntaxError", "TypeError", "RangeError", "OperationError"}
    /\ \E p \in RecognizedPrefixes : StartsWith(error.message, p)

\* core.ts 276-318, the body of the try
UnsealTry(sealWithoutVersion) ==
    LET decoded == DecodePayload(sealWithoutVersion)
    IN  IF decoded.kind = "throw" THEN decoded
        ELSE
        LET comps == DecodeComponents(decoded.value)
        IN  IF comps.kind = "throw" THEN comps
            ELSE
            LET ciphertext == comps.value.ciphertext
                kemPublicKey == comps.value.publicKey
                signature == comps.value.signature
                signPublicKey == comps.value.signPublicKey
            IN  IF ~DsaVerify(ciphertext, signature, signPublicKey)
                THEN Throw("Error", MsgInvalidSignature)
                ELSE
                LET dec == KemDecapsulate(CipherLen(ciphertext),
                                          MlKem1024PublicKeyBytes)
                IN  IF dec.kind = "throw" THEN dec
                    ELSE
                    LET plain == AesGcmDecrypt(dec.value, ZeroIv, ciphertext)
                    IN  IF plain.kind = "throw" THEN plain
                        ELSE Return(plain.value.value)

\* core.ts 268-331
unsealData(seal, unsealOptions) ==
    LET parsed == parseSeal(seal)
    IN  IF parsed.kind = "throw" THEN parsed
        ELSE
        LET r == UnsealTry(parsed.value.sealWithoutVersion)
        IN  IF r.kind = "throw" /\ IsSealProblem(r.error)
            THEN Return(EmptyObject)
            ELSE r

----------------------------------------------------------------------------
\* The seal engine called directly: sealData, a change to the seal string,
\* unsealData

SealComponents == {"ciphertext", "publicKey", "signature", "signPublicKey"}
ForgedClasses == {"badBase64", "notJson", "empty", "jsonNull", "missingComponent"}
VersionStrings == {"none", "2", "3"}
NoSealCall == [data |-> NoValue, password |-> MissingPassword]

\* a payload that sealData did not produce, with the length of a short string
ForgedLen(class) == IF class = "empty" THEN 0 ELSE 4
ForgedSeal(class, version) == SealString(class, NoSeal, ForgedLen(class), version)

\* one byte of a component changed: same length, different content
FlipComponent(s, c) ==
    [s EXCEPT !.payload.seal[c].flipped = TRUE]

DoSeal ==
    /\ nSeals < MaxSeals
    /\ \E f \in AllFieldMaps, pw \in ValidPasswords :
          /\ token' = sealData(JsObject(f), [password |-> pw, ttl |-> fourteenDaysInSeconds],
                               nSeals + 1)
          /\ sealIn' = [data |-> JsObject(f), password |-> pw]
    /\ origin' = "sealData"
    /\ altered' = "none"
    /\ nSeals' = nSeals + 1
    /\ unsealOut' = NoOutcome
    /\ unsealPw' = MissingPassword
    /\ UNCHANGED lifeVars

DoAlter ==
    /\ origin = "sealData"
    /\ altered = "none"
    /\ \E c \in SealComponents :
          /\ token' = FlipComponent(token, c)
          /\ altered' = c
    /\ unsealOut' = NoOutcome
    /\ unsealPw' = MissingPassword
    /\ UNCHANGED <<origin, sealIn, nSeals>>
    /\ UNCHANGED lifeVars

DoChangeVersion ==
    /\ origin = "sealData"
    /\ altered = "none"
    /\ \E v \in VersionStrings \ {"2"} :
          token' = [token EXCEPT !.version = v]
    /\ altered' = "version"
    /\ unsealOut' = NoOutcome
    /\ unsealPw' = MissingPassword
    /\ UNCHANGED <<origin, sealIn, nSeals>>
    /\ UNCHANGED lifeVars

DoForge ==
    /\ \E class \in ForgedClasses, v \in VersionStrings :
          token' = ForgedSeal(class, v)
    /\ origin' = "forged"
    /\ altered' = "none"
    /\ sealIn' = NoSealCall
    /\ unsealOut' = NoOutcome
    /\ unsealPw' = MissingPassword
    /\ UNCHANGED nSeals
    /\ UNCHANGED lifeVars

DoUnseal ==
    /\ origin # "none"
    /\ unsealOut = NoOutcome
    /\ \E pw \in ValidPasswords, ttl \in {0, fourteenDaysInSeconds} :
          /\ unsealOut' = unsealData(token, [password |-> pw, ttl |-> ttl])
          /\ unsealPw' = pw
    /\ UNCHANGED <<token, origin, altered, sealIn, nSeals>>
    /\ UNCHANGED lifeVars

----------------------------------------------------------------------------
\* The session of one request, before getIronSession is called

NoConfig == [t |-> "none"]
NoOp == [op |-> "none", outcome |-> NoOutcome, before |-> 0, fields |-> <<>>,
         arg |-> NoValue]

\* the set-cookie header of a response: absent, one value, or a list of values
NoHeader == [form |-> "absent", values |-> <<>>]
SingleHeader(v) == [form |-> "single", values |-> <<v>>]
ListHeader(vs) == [form |-> "list", values |-> vs]

\* no destroy() yet
NotDestroyed == [active |-> FALSE, had |-> FALSE, written |-> <<>>]

LifeIdle ==
    /\ transport = "reqres"
    /\ resKind = "node"
    /\ headersSent = FALSE
    /\ inbound = NoToken
    /\ options = NoConfig
    /\ pc = "unloaded"
    /\ session = EmptyFields
    /\ loadedFields = EmptyFields
    /\ sessionConfig = NoConfig
    /\ emitted = <<>>
    /\ lastOp = NoOp
    /\ sealArg = NoValue
    /\ unsealCalled = FALSE
    /\ sinceDestroy = NotDestroyed
    /\ priorHeader = NoHeader
    /\ header = NoHeader

SealIdle ==
    /\ token = NoToken
    /\ origin = "none"
    /\ altered = "none"
    /\ sealIn = NoSealCall
    /\ unsealPw = MissingPassword
    /\ unsealOut = NoOutcome
    /\ nSeals = 0

SealInit == SealIdle /\ LifeIdle

SealNext == DoSeal \/ DoAlter \/ DoChangeVersion \/ DoForge \/ DoUnseal

SealSpec == SealInit /\ [][SealNext]_vars

Unsealed == unsealOut # NoOutcome
Genuine == origin = "sealData" /\ altered = "none"

\* C1: unsealData(sealData(v, K), K) returns a value equal to v.
C1_RoundTrip ==
    (Genuine /\ Unsealed /\ unsealPw = sealIn.password)
        => (unsealOut.kind = "return" /\ unsealOut.value = sealIn.data)

\* C2: a sealData token with one byte of its ciphertext, signature or either
\* public key changed unseals to the empty value: no throw, never the sealed value.
C2_TamperClosed ==
    (origin = "sealData" /\ altered \in SealComponents /\ Unsealed)
        => /\ unsealOut.kind = "return"
           /\ unsealOut.value = EmptyObject
           /\ (sealIn.data # EmptyObject => unsealOut.value # sealIn.data)

\* C3: unsealing with a password set that lacks the secret at the sealing set's
\* highest key id returns the empty value, never the sealed data.
C3_ForeignCookieEmpty ==
    (Genuine /\ Unsealed /\ CurrentSecret(sealIn.password) \notin SecretsOf(unsealPw))
        => (unsealOut.kind = "return" /\ unsealOut.value = EmptyObject)

\* C6: a token whose version suffix is not 2 unseals to the empty value and
\* never throws, whatever its payload.
C6_VersionTolerance ==
    (Unsealed /\ token.version = "3")
        => (unsealOut.kind = "return" /\ unsealOut.value = EmptyObject)

\* C7: a token sealed under {1: A} still unseals to its value under {1: A, 2: B}.
C7_Rotation ==
    (Genuine /\ Unsealed /\ sealIn.password = PwA1 /\ unsealPw = PwA1B2)
        => (unsealOut.kind = "return" /\ unsealOut.value = sealIn.data)

----------------------------------------------------------------------------
\* Session options, the resolved configuration, cookies

CookieNameLen(n) == CASE n = "sid" -> 3 [] n = "sid2" -> 4 [] OTHER -> 0

\* the caller's cookieOptions: given or not; the maxAge key absent, present with
\* value undefined, or set; the secure key absent or set
CoAbsent ==
    [given |-> FALSE, maxAgeKey |-> "absent", maxAge |-> 0,
     secureKey |-> "absent", secure |-> TRUE]
CoSessionCookie ==
    [given |-> TRUE, maxAgeKey |-> "undefined", maxAge |-> 0,
     secureKey |-> "absent", secure |-> TRUE]
CoMaxAge ==
    [given |-> TRUE, maxAgeKey |-> "set", maxAge |-> 100,
     secureKey |-> "absent", secure |-> TRUE]
CoInsecure ==
    [given |-> TRUE, maxAgeKey |-> "absent", maxAge |-> 0,
     secureKey |-> "set", secure |-> FALSE]
CoSessionInsecure ==
    [given |-> TRUE, maxAgeKey |-> "undefined", maxAge |-> 0,
     secureKey |-> "set", secure |-> FALSE]

\* core.ts 64-105; cookieName "" is a missing name
MakeOptions(name, pw, ttlKey, ttl, co) ==
    [cookieName |-> name, password |-> pw, ttlKey |-> ttlKey, ttl |-> ttl,
     cookieOptions |-> co]

\* core.ts 134-138
defaultOptions ==
    [ttl |-> fourteenDaysInSeconds,
     cookieOptions |-> [httpOnly |-> TRUE, secure |-> TRUE, sameSite |-> "lax",
                        path |-> "/", maxAgeKey |-> "absent", maxAge |-> 0]]

\* core.ts 163-175 without the skew
computeCookieMaxAgeNoSkew(ttl) ==
    IF ttl = 0 THEN MaxCookieMaxAge ELSE ttl

\* core.ts 163-175
computeCookieMaxAge(ttl) ==
    IF ttl = 0 THEN MaxCookieMaxAge ELSE ttl - timestampSkewSec

\* core.ts 333-358 with the ttl kept when maxAge is given as undefined
getSessionConfigKeepTtl(sessionOptions) ==
    LET co == sessionOptions.cookieOptions
        ttl == IF sessionOptions.ttlKey = "set" THEN sessionOptions.ttl
               ELSE defaultOptions.ttl
        merged ==
            [defaultOptions.cookieOptions EXCEPT
                !.secure = IF co.given /\ co.secureKey = "set" THEN co.secure ELSE @,
                !.maxAgeKey = IF co.given THEN co.maxAgeKey ELSE @,
                !.maxAge = IF co.given /\ co.maxAgeKey = "set" THEN co.maxAge ELSE @]
    IN  IF co.given /\ co.maxAgeKey = "set"
        THEN [cookieName |-> sessionOptions.cookieName,
              password |-> sessionOptions.password,
              ttl |-> ttl,
              cookieOptions |-> merged]
        ELSE [cookieName |-> sessionOptions.cookieName,
              password |-> sessionOptions.password,
              ttl |-> ttl,
              cookieOptions |-> [merged EXCEPT !.maxAgeKey = "set",
                                               !.maxAge = computeCookieMaxAge(ttl)]]

\* core.ts 333-358
getSessionConfig(sessionOptions) ==
    LET co == sessionOptions.cookieOptions
        ttl == IF sessionOptions.ttlKey = "set" THEN sessionOptions.ttl
               ELSE defaultOptions.ttl
        merged ==
            [defaultOptions.cookieOptions EXCEPT
                !.secure = IF co.given /\ co.secureKey = "set" THEN co.secure ELSE @,
                !.maxAgeKey = IF co.given THEN co.maxAgeKey ELSE @,
                !.maxAge = IF co.given /\ co.maxAgeKey = "set" THEN co.maxAge ELSE @]
    IN  IF co.given /\ co.maxAgeKey # "absent"
        THEN [cookieName |-> sessionOptions.cookieName,
              password |-> sessionOptions.password,
              ttl |-> IF co.maxAgeKey = "undefined" THEN 0 ELSE ttl,
              cookieOptions |-> merged]
        ELSE [cookieName |-> sessionOptions.cookieName,
              password |-> sessionOptions.password,
              ttl |-> ttl,
              cookieOptions |-> [merged EXCEPT !.maxAgeKey = "set",
                                               !.maxAge = computeCookieMaxAge(ttl)]]

\* the empty string
EmptyString == [t |-> "empty"]

\* length of the attribute part serialize() appends:
\* "; Max-Age=n", "; Path=/", "; HttpOnly", "; Secure", "; SameSite=Lax"
AttributesLen(co) ==
    (IF co.maxAgeKey = "set" THEN 10 + Digits(co.maxAge) ELSE 0)
    + 8
    + (IF co.httpOnly THEN 10 ELSE 0)
    + (IF co.secure THEN 8 ELSE 0)
    + 14

\* encodeURIComponent(value).length: "=" becomes "%3D"
EncodedValueLen(value) ==
    IF value = EmptyString THEN 0
    ELSE SealLength(value) + 2 * SealPadding(value)

\* serialize(name, value, cookieOptions): the cookie and the length of its string
serialize(name, value, co) ==
    [name |-> name, value |-> value, attrs |-> co,
     len |-> CookieNameLen(name) + 1 + EncodedValueLen(value) + AttributesLen(co)]

\* JSON.stringify(cookieOptions).length; a key whose value is undefined is left out
OptionsJsonLen(co) ==
    2 + (IF co.httpOnly THEN 15 ELSE 16) + 1
      + (IF co.secure THEN 13 ELSE 14) + 1
      + 16 + 1
      + 10
      + (IF co.maxAgeKey = "set" THEN 1 + 9 + Digits(co.maxAge) ELSE 0)

\* core.ts 533-536
CookieStoreLengthNoSeal(config, seal) ==
    CookieNameLen(config.cookieName) + OptionsJsonLen(config.cookieOptions)

CookieStoreLength(config, seal) ==
    CookieNameLen(config.cookieName) + SealLength(seal)
    + OptionsJsonLen(config.cookieOptions)

\* core.ts 472-475 and 558: { ...sessionConfig.cookieOptions, maxAge: 0 }
DestroyOptionsKeepMaxAge(co) == co

DestroyOptions(co) == [co EXCEPT !.maxAgeKey = "set", !.maxAge = 0]

\* core.ts 177-185 and 187-197: the inbound value for the configured name, or ""
getCookie(inb) == IF inb = NoToken THEN EmptyString ELSE inb
getServerActionCookie(inb) == IF inb = NoToken THEN EmptyString ELSE inb

\* another writer's set-cookie value, already on the response
OtherCookie(n) == [other |-> n]

\* core.ts 199-212 with the header kept
setCookieReplacing(kind, hdr, cookieValue) == ListHeader(<<cookieValue>>)

\* core.ts 199-212: a Fetch response appends to its headers; a Node response
\* reads the header (absent is []), makes a value that is not a list a list of
\* that value, and sets the header to the list with the cookie at its end
setCookie(kind, hdr, cookieValue) ==
    IF kind = "fetch"
    THEN ListHeader(Append(hdr.values, cookieValue))
    ELSE LET existing == IF hdr.form = "absent" THEN <<>>
                         ELSE IF hdr.form = "single" THEN <<hdr.values[1]>>
                         ELSE hdr.values
         IN  ListHeader(Append(existing, cookieValue))

MsgBadUsageName == <<"iron-session", ":", "Bad", "usage", ".", "Missing", "cookie", "name">>
MsgBadUsagePassword == <<"iron-session", ":", "Bad", "usage", ".", "Missing", "password">>
MsgBadUsageLength ==
    <<"iron-session", ":", "Bad", "usage", ".", "Password", "must", "be", "at",
      "least", "32", "characters", "long">>
MsgHeadersSent ==
    <<"iron-session", ":", "Cannot", "set", "session", "cookie", ":",
      "session.save()", "was", "called", "after", "headers", "were", "sent">>
MsgTooBig == <<"iron-session", ":", "Cookie", "length", "is", "too", "big">>

\* core.ts 407-421 without the length check
validateOptionsNoLength(sessionOptions) ==
    IF sessionOptions.cookieName = ""
    THEN Throw("Error", MsgBadUsageName)
    ELSE IF sessionOptions.password.form = "missing"
    THEN Throw("Error", MsgBadUsagePassword)
    ELSE Return(Nothing)

\* core.ts 407-421: the checks of getIronSession(req, res, options)
validateOptions(sessionOptions) ==
    IF sessionOptions.cookieName = ""
    THEN Throw("Error", MsgBadUsageName)
    ELSE IF sessionOptions.password.form = "missing"
    THEN Throw("Error", MsgBadUsagePassword)
    ELSE IF \E x \in SecretsOf(sessionOptions.password) : SecretLen(x) < MinPasswordLength
    THEN Throw("Error", MsgBadUsageLength)
    ELSE Return(Nothing)

\* core.ts 492-506: the checks of getIronSession(cookies(), options)
validateOptionsFromCookieStore(sessionOptions) ==
    IF sessionOptions.cookieName = ""
    THEN Throw("Error", MsgBadUsageName)
    ELSE IF sessionOptions.password.form = "missing"
    THEN Throw("Error", MsgBadUsagePassword)
    ELSE IF \E x \in SecretsOf(sessionOptions.password) : SecretLen(x) < MinPasswordLength
    THEN Throw("Error", MsgBadUsageLength)
    ELSE Return(Nothing)

\* core.ts 407-431: what getIronSession(req, res, options) resolves to or throws,
\* and whether it called unsealData on the way
getIronSessionSteps(sessionOptions, inb) ==
    LET checked == validateOptions(sessionOptions)
    IN  IF checked.kind = "throw"
        THEN [outcome |-> checked, unsealCalled |-> FALSE]
        ELSE LET config == getSessionConfig(sessionOptions)
                 sealFromCookies == getCookie(inb)
             IN  IF sealFromCookies = EmptyString
                 THEN [outcome |-> Return(EmptyObject), unsealCalled |-> FALSE]
                 ELSE [outcome |->
                          unsealData(sealFromCookies,
                                     [password |-> normalizeStringPasswordToMap(
                                                       sessionOptions.password),
                                      ttl |-> config.ttl]),
                       unsealCalled |-> TRUE]

getIronSession(sessionOptions, inb) == getIronSessionSteps(sessionOptions, inb).outcome

\* core.ts 492-518
getIronSessionFromCookieStoreSteps(sessionOptions, inb) ==
    LET checked == validateOptionsFromCookieStore(sessionOptions)
    IN  IF checked.kind = "throw"
        THEN [outcome |-> checked, unsealCalled |-> FALSE]
        ELSE LET config == getSessionConfig(sessionOptions)
                 sealFromCookies == getServerActionCookie(inb)
             IN  IF sealFromCookies = EmptyString
                 THEN [outcome |-> Return(EmptyObject), unsealCalled |-> FALSE]
                 ELSE [outcome |->
                          unsealData(sealFromCookies,
                                     [password |-> normalizeStringPasswordToMap(
                                                       sessionOptions.password),
                                      ttl |-> config.ttl]),
                       unsealCalled |-> TRUE]

getIronSessionFromCookieStore(sessionOptions, inb) ==
    getIronSessionFromCookieStoreSteps(sessionOptions, inb).outcome

\* core.ts 447 and 528: save() hands the session object itself to sealData
SaveSealInputLoaded(current, loaded) == JsObject(loaded)

SaveSealInput(current, loaded) == JsObject(current)

\* core.ts 441 without the test
HeadersNeverSent(kind, sent) == FALSE

\* core.ts 441: "headersSent" in res && res.headersSent
HeadersAlreadySent(kind, sent) == kind = "node" /\ sent

\* core.ts 440-464: save() of the request/response transport
saveReqRes(config, fields, loaded, pw, kind, sent, list, hdr) ==
    IF HeadersAlreadySent(kind, sent)
    THEN [outcome |-> Throw("Error", MsgHeadersSent), emitted |-> list,
          sealArg |-> NoValue, header |-> hdr]
    ELSE LET arg == SaveSealInput(fields, loaded)
             seal == sealData(arg, [password |-> pw, ttl |-> config.ttl], Len(list) + 1)
             cookieValue == serialize(config.cookieName, seal, config.cookieOptions)
         IN  IF cookieValue.len > MaxCookieLength
             THEN [outcome |-> Throw("Error", MsgTooBig), emitted |-> list,
                   sealArg |-> arg, header |-> hdr]
             ELSE [outcome |-> Return(Nothing), emitted |-> Append(list, cookieValue),
                   sealArg |-> arg, header |-> setCookie(kind, hdr, cookieValue)]

\* core.ts 527-549: save() of the cookie-store transport
saveStore(config, fields, loaded, pw, list) ==
    LET arg == SaveSealInput(fields, loaded)
        seal == sealData(arg, [password |-> pw, ttl |-> config.ttl], Len(list) + 1)
        cookieLength == CookieStoreLength(config, seal)
    IN  IF cookieLength > MaxCookieLength
        THEN [outcome |-> Throw("Error", MsgTooBig), emitted |-> list, sealArg |-> arg]
        ELSE [outcome |-> Return(Nothing),
              emitted |-> Append(list, serialize(config.cookieName, seal,
                                                 config.cookieOptions)),
              sealArg |-> arg]

\* core.ts 469-471 with the fields kept
destroyFieldsKept(fields) == fields

\* core.ts 469-471 and 553-555: destroy() deletes every key of the session
destroyFields(fields) == EmptyFields

\* core.ts 434-438 resolving the options of the load again
updateConfigStale(newSessionOptions, sessionOptions) == getSessionConfig(sessionOptions)

\* core.ts 434-438 and 521-525: the new options replace the old ones and the
\* configuration is resolved from them
updateConfig(newSessionOptions, sessionOptions) == getSessionConfig(newSessionOptions)

\* core.ts 468-478 and 553-560: the cookie destroy() writes
destroyCookie(config) ==
    serialize(config.cookieName, EmptyString, DestroyOptions(config.cookieOptions))

----------------------------------------------------------------------------
\* One request: getIronSession, then field writes, save, destroy, updateConfig

\* a seal as sealData returns it, for requests that carry one
SampleSeal ==
    sealData(JsObject([userId |-> 42]),
             [password |-> <<"A">>, ttl |-> fourteenDaysInSeconds], 1)

InboundCookies ==
    {NoToken, EmptyString, SampleSeal}
    \cup {ForgedSeal(c, v) : c \in ForgedClasses, v \in VersionStrings}
    \cup {FlipComponent(SampleSeal, c) : c \in {"signature", "publicKey"}}
    \cup {[SampleSeal EXCEPT !.version = v] : v \in {"none", "3"}}

InitOptions ==
    {MakeOptions("", PwA, "absent", 0, CoAbsent),
     MakeOptions("sid", MissingPassword, "absent", 0, CoAbsent),
     MakeOptions("sid", PwS, "absent", 0, CoAbsent),
     MakeOptions("sid", MapPassword(<<"A", "S">>), "absent", 0, CoAbsent),
     MakeOptions("sid", PwA1B2, "absent", 0, CoAbsent)}
    \cup {MakeOptions("sid", PwA, k[1], k[2], co) :
        k \in {<<"absent", 0>>, <<"set", 0>>, <<"set", 3600>>},
        co \in {CoAbsent, CoSessionCookie}}

UpdateOptions ==
    {MakeOptions("sid2", PwS, "set", 120, CoAbsent),
     MakeOptions("sid", PwA, "set", 3600, CoInsecure),
     MakeOptions("sid", PwA, "set", 0, CoMaxAge),
     MakeOptions("sid", PwA, "set", 3600, CoSessionInsecure)}

\* what the response's set-cookie header holds before the session writes to it
PriorHeaders ==
    {NoHeader, SingleHeader(OtherCookie(1)),
     ListHeader(<<OtherCookie(1), OtherCookie(2)>>)}

CalledWith(op, outcome, arg) ==
    [op |-> op, outcome |-> outcome, before |-> Len(emitted), fields |-> session,
     arg |-> arg]

Called(op, outcome) == CalledWith(op, outcome, NoValue)

LifeInit ==
    /\ SealIdle
    /\ transport \in {"reqres", "store"}
    /\ resKind \in {"node", "fetch"}
    /\ (transport = "store" => resKind = "fetch")
    /\ headersSent = FALSE
    /\ inbound \in InboundCookies
    /\ options \in InitOptions
    /\ pc = "unloaded"
    /\ session = EmptyFields
    /\ loadedFields = EmptyFields
    /\ sessionConfig = NoConfig
    /\ emitted = <<>>
    /\ lastOp = NoOp
    /\ sealArg = NoValue
    /\ unsealCalled = FALSE
    /\ sinceDestroy = NotDestroyed
    /\ priorHeader \in PriorHeaders
    /\ (transport = "store" => priorHeader = NoHeader)
    /\ (resKind = "fetch" => priorHeader.form # "single")
    /\ (priorHeader # NoHeader =>
            /\ inbound = NoToken
            /\ options = MakeOptions("sid", PwA, "absent", 0, CoAbsent))
    /\ (inbound # NoToken =>
            options \in InitOptions \ {MakeOptions("sid", PwA, "set", t, co) :
                                          t \in {0, 3600}, co \in {CoAbsent, CoSessionCookie}})
    /\ header = priorHeader

\* core.ts 378-483 and 486-565
Load ==
    /\ pc = "unloaded"
    /\ LET steps == IF transport = "reqres"
                    THEN getIronSessionSteps(options, inbound)
                    ELSE getIronSessionFromCookieStoreSteps(options, inbound)
           out == steps.outcome
       IN  /\ lastOp' = CalledWith("load", out, options)
           /\ unsealCalled' = steps.unsealCalled
           /\ IF out.kind = "return"
              THEN /\ pc' = "loaded"
                   /\ session' = out.value.fields
                   /\ loadedFields' = out.value.fields
                   /\ sessionConfig' = getSessionConfig(options)
              ELSE /\ pc' = "failed"
                   /\ UNCHANGED <<session, loadedFields, sessionConfig>>
    /\ UNCHANGED <<transport, resKind, headersSent, inbound, options, emitted, sealArg,
                   sinceDestroy, priorHeader, header>>
    /\ UNCHANGED sealVars

\* the caller writes a field of the session object
SetField ==
    /\ pc = "loaded"
    /\ \E k \in FieldNames, v \in FieldValues :
          /\ session' = [x \in DOMAIN session \cup {k} |->
                            IF x = k THEN v ELSE session[x]]
          /\ sinceDestroy' =
                IF sinceDestroy.active
                THEN [sinceDestroy EXCEPT !.written =
                        [x \in DOMAIN sinceDestroy.written \cup {k} |->
                            IF x = k THEN v ELSE sinceDestroy.written[x]]]
                ELSE sinceDestroy
    /\ lastOp' = Called("write", Return(Nothing))
    /\ sealArg' = NoValue
    /\ UNCHANGED <<transport, resKind, headersSent, inbound, options, pc,
                   loadedFields, sessionConfig, emitted, unsealCalled, priorHeader,
                   header>>
    /\ UNCHANGED sealVars

\* the caller deletes a field of the session object
DeleteField ==
    /\ pc = "loaded"
    /\ \E k \in DOMAIN session :
          /\ session' = [x \in DOMAIN session \ {k} |-> session[x]]
          /\ sinceDestroy' =
                IF sinceDestroy.active
                THEN [sinceDestroy EXCEPT !.written =
                        [x \in DOMAIN sinceDestroy.written \ {k} |->
                            sinceDestroy.written[x]]]
                ELSE sinceDestroy
    /\ lastOp' = Called("delete", Return(Nothing))
    /\ sealArg' = NoValue
    /\ UNCHANGED <<transport, resKind, headersSent, inbound, options, pc,
                   loadedFields, sessionConfig, emitted, unsealCalled, priorHeader,
                   header>>
    /\ UNCHANGED sealVars

\* res.end() / res.writeHead(): the response headers go out
SendHeaders ==
    /\ pc = "loaded"
    /\ transport = "reqres"
    /\ resKind = "node"
    /\ ~headersSent
    /\ headersSent' = TRUE
    /\ lastOp' = Called("sendHeaders", Return(Nothing))
    /\ sealArg' = NoValue
    /\ UNCHANGED <<transport, resKind, inbound, options, pc, session,
                   loadedFields, sessionConfig, emitted, unsealCalled, sinceDestroy,
                   priorHeader, header>>
    /\ UNCHANGED sealVars

\* core.ts 440-464 and 527-549
Save ==
    /\ pc = "loaded"
    /\ Len(emitted) < MaxEmitted
    /\ LET pw == normalizeStringPasswordToMap(options.password)
       IN  IF transport = "reqres"
           THEN LET r == saveReqRes(sessionConfig, session, loadedFields, pw, resKind,
                                    headersSent, emitted, header)
                IN  /\ lastOp' = Called("save", r.outcome)
                    /\ emitted' = r.emitted
                    /\ sealArg' = r.sealArg
                    /\ header' = r.header
           ELSE LET r == saveStore(sessionConfig, session, loadedFields, pw, emitted)
                IN  /\ lastOp' = Called("save", r.outcome)
                    /\ emitted' = r.emitted
                    /\ sealArg' = r.sealArg
                    /\ header' = header
    /\ UNCHANGED <<transport, resKind, headersSent, inbound, options, pc, session,
                   loadedFields, sessionConfig, unsealCalled, sinceDestroy,
                   priorHeader>>
    /\ UNCHANGED sealVars

\* core.ts 467-479 and 552-561
Destroy ==
    /\ pc = "loaded"
    /\ Len(emitted) < MaxEmitted
    /\ session' = destroyFields(session)
    /\ emitted' = Append(emitted, destroyCookie(sessionConfig))
    /\ header' = IF transport = "reqres"
                 THEN setCookie(resKind, header, destroyCookie(sessionConfig))
                 ELSE header
    /\ sinceDestroy' = [active |-> TRUE, had |-> session # EmptyFields,
                        written |-> EmptyFields]
    /\ lastOp' = Called("destroy", Return(Nothing))
    /\ sealArg' = NoValue
    /\ UNCHANGED <<transport, resKind, headersSent, inbound, options, pc,
                   loadedFields, sessionConfig, unsealCalled, priorHeader>>
    /\ UNCHANGED sealVars

\* core.ts 434-438 and 521-525
UpdateConfig ==
    /\ pc = "loaded"
    /\ \E o \in UpdateOptions :
          /\ sessionConfig' = updateConfig(o, options)
          /\ lastOp' = CalledWith("updateConfig", Return(Nothing), o)
    /\ sealArg' = NoValue
    /\ UNCHANGED <<transport, resKind, headersSent, inbound, options, pc, session,
                   loadedFields, emitted, unsealCalled, sinceDestroy, priorHeader,
                   header>>
    /\ UNCHANGED sealVars

Init == LifeInit

Next ==
    \/ Load
    \/ SetField
    \/ DeleteField
    \/ SendHeaders
    \/ Save
    \/ Destroy
    \/ UpdateConfig

Spec == Init /\ [][Next]_vars

----------------------------------------------------------------------------
\* Claims about the session lifecycle

ValidOptions(o) ==
    /\ o.cookieName # ""
    /\ o.password.form # "missing"
    /\ \A x \in SecretsOf(o.password) : SecretLen(x) >= 32

InvalidSeals ==
    {ForgedSeal(c, v) : c \in ForgedClasses, v \in VersionStrings}
    \cup {FlipComponent(SampleSeal, c) : c \in SealComponents}
    \cup {[SampleSeal EXCEPT !.version = "none"]}

LastCookie == emitted[Len(emitted)]

\* C4: with {cookieName, password of 32 characters, ttl 3600} and no inbound
\* cookie the session loads empty; after a field is set, save() succeeds and
\* emits exactly one cookie of the configured name with Max-Age 3540, and a load
\* from that cookie with the same password yields the same fields.
C4_SessionRoundTrip ==
    (/\ lastOp.op = "save"
     /\ transport = "reqres"
     /\ ~headersSent
     /\ inbound = NoToken
     /\ options = MakeOptions("sid", PwA, "set", 3600, CoAbsent)
     /\ sessionConfig = getSessionConfig(options)
     /\ lastOp.before = 0
     /\ session # EmptyFields)
        => /\ loadedFields = EmptyFields
           /\ lastOp.outcome.kind = "return"
           /\ Len(emitted) = 1
           /\ LastCookie.name = "sid"
           /\ LastCookie.attrs.maxAgeKey = "set"
           /\ LastCookie.attrs.maxAge = 3540
           /\ getIronSession(options, LastCookie.value) = Return(JsObject(session))

\* C5: with valid options, a non-empty inbound cookie that is not a valid seal
\* makes getIronSession return an empty session; it does not throw.
C5_InvalidSealLoadsEmpty ==
    (lastOp.op = "load" /\ ValidOptions(options) /\ inbound \in InvalidSeals)
        => (pc = "loaded" /\ lastOp.outcome.kind = "return" /\ session = EmptyFields)

\* C8: when the cookie string save() would emit is longer than 4096, save()
\* throws the size error and writes no cookie; when it is at most 4096, save()
\* writes exactly that cookie.
C8_SizeGuard ==
    (lastOp.op = "save" /\ sealArg # NoValue)
        => LET seal == sealData(sealArg,
                                [password |-> normalizeStringPasswordToMap(options.password),
                                 ttl |-> sessionConfig.ttl],
                                lastOp.before + 1)
               cookie == serialize(sessionConfig.cookieName, seal,
                                   sessionConfig.cookieOptions)
           IN  IF cookie.len > 4096
               THEN /\ lastOp.outcome = Throw("Error", MsgTooBig)
                    /\ Len(emitted) = lastOp.before
               ELSE /\ lastOp.outcome.kind = "return"
                    /\ Len(emitted) = lastOp.before + 1
                    /\ LastCookie = cookie

\* a save() of the cookie-store transport refused for its size, nothing written
C8_Witness ==
    /\ lastOp.op = "save"
    /\ transport = "store"
    /\ sealArg # NoValue
    /\ session # EmptyFields
    /\ lastOp.outcome = Throw("Error", MsgTooBig)
    /\ Len(emitted) = lastOp.before

\* C9: destroy() leaves the session without fields and writes exactly one cookie:
\* the configured name, an empty value, the configured attributes, maxAge 0;
\* in both transports and under every configuration, session cookies included.
C9_DestroyPostcondition ==
    lastOp.op = "destroy"
        => /\ session = EmptyFields
           /\ Len(emitted) = lastOp.before + 1
           /\ LastCookie.name = sessionConfig.cookieName
           /\ LastCookie.value = EmptyString
           /\ LastCookie.attrs.maxAgeKey = "set"
           /\ LastCookie.attrs.maxAge = 0
           /\ LastCookie.attrs.httpOnly = sessionConfig.cookieOptions.httpOnly
           /\ LastCookie.attrs.secure = sessionConfig.cookieOptions.secure
           /\ LastCookie.attrs.sameSite = sessionConfig.cookieOptions.sameSite
           /\ LastCookie.attrs.path = sessionConfig.cookieOptions.path

\* destroy() of a session that held fields, under a session-cookie configuration
\* (no maxAge), through the cookie store
C9_Witness ==
    /\ lastOp.op = "destroy"
    /\ transport = "store"
    /\ lastOp.fields # EmptyFields
    /\ sessionConfig.cookieOptions.maxAgeKey = "undefined"
    /\ session = EmptyFields

\* C10: the value save() hands to sealData is the session's field set at the
\* moment of the call, not the loaded one, and holds none of save, destroy,
\* updateConfig.
C10_SaveSealsCurrentFields ==
    (lastOp.op = "save" /\ lastOp.outcome # Throw("Error", MsgHeadersSent))
        => /\ sealArg = JsObject(session)
           /\ sealArg.fields = lastOp.fields
           /\ DOMAIN sealArg.fields \cap {"save", "destroy", "updateConfig"} = {}

\* a save() after writes that made the session differ from what was loaded
C10_Witness ==
    /\ lastOp.op = "save"
    /\ sealArg # NoValue
    /\ session # loadedFields
    /\ Cardinality(DOMAIN session) = 2

\* C11: when the cookie name is missing, the password is missing, or a secret of
\* the password set (a string counts as {1: secret}) is shorter than 32
\* characters, getIronSession throws a usage error, returns no session, never
\* calls unsealData and writes no cookie, in both call forms.
C11_UsageErrorsFailAtLoad ==
    (pc # "unloaded" /\ ~ValidOptions(options))
        => /\ pc = "failed"
           /\ lastOp.op = "load"
           /\ lastOp.outcome \in {Throw("Error", MsgBadUsageName),
                                  Throw("Error", MsgBadUsagePassword),
                                  Throw("Error", MsgBadUsageLength)}
           /\ sessionConfig = NoConfig
           /\ session = EmptyFields
           /\ ~unsealCalled
           /\ emitted = <<>>
           /\ header = priorHeader

\* a load through the cookie store with a two-secret password set whose second
\* secret is too short, on a request that carries a seal
C11_Witness ==
    /\ pc = "failed"
    /\ transport = "store"
    /\ options.password = MapPassword(<<"A", "S">>)
    /\ inbound = SampleSeal
    /\ lastOp.outcome = Throw("Error", MsgBadUsageLength)

\* C12: when the response headers have already been sent, save() throws the
\* usage error, does not call sealData, writes no cookie, and leaves the fields
\* and the configuration as they were.
C12_HeadersSentPrecondition ==
    [][(lastOp'.op = "save" /\ headersSent)
          => /\ lastOp'.outcome = Throw("Error", MsgHeadersSent)
             /\ sealArg' = NoValue
             /\ emitted' = emitted
             /\ header' = header
             /\ session' = session
             /\ sessionConfig' = sessionConfig
             /\ pc' = pc]_vars

\* a save() refused after the headers of a Node response went out, on a session
\* that holds fields under a replaced configuration
C12_Witness ==
    /\ lastOp.op = "save"
    /\ headersSent
    /\ lastOp.outcome = Throw("Error", MsgHeadersSent)
    /\ session # EmptyFields
    /\ sessionConfig.cookieName = "sid2"
    /\ sealArg = NoValue

\* the ttl the caller asked for: the one given, or the 14-day default
CallerTtl(o) == IF o.ttlKey = "set" THEN o.ttl ELSE 1209600

\* the last call resolved the configuration from its options
ResolvedFromArg ==
    \/ lastOp.op = "load" /\ lastOp.outcome.kind = "return"
    \/ lastOp.op = "updateConfig"

\* C13: when cookieOptions has no maxAge key, getSessionConfig resolves ttl to
\* the caller's ttl (14 days by default) and maxAge to ttl - 60 for every ttl
\* other than 0 (1209540 by default), which is below ttl, and to 2147483647 for
\* ttl 0.
C13_TtlToMaxAge ==
    (ResolvedFromArg /\ lastOp.arg.cookieOptions.maxAgeKey = "absent")
        => LET ttl == CallerTtl(lastOp.arg)
               co == sessionConfig.cookieOptions
           IN  /\ sessionConfig.ttl = ttl
               /\ co.maxAgeKey = "set"
               /\ (ttl # 0 => co.maxAge = ttl - 60 /\ co.maxAge < ttl)
               /\ (ttl = 0 => co.maxAge = 2147483647)
               /\ (lastOp.arg.ttlKey = "absent" => co.maxAge = 1209540)

\* updateConfig with ttl 120 and no cookieOptions: maxAge 60
C13_Witness ==
    /\ lastOp.op = "updateConfig"
    /\ lastOp.arg.cookieOptions.maxAgeKey = "absent"
    /\ lastOp.arg.ttlKey = "set"
    /\ lastOp.arg.ttl = 120
    /\ sessionConfig.ttl = 120
    /\ sessionConfig.cookieOptions.maxAge = 60

\* C14: when cookieOptions holds the key maxAge with the value undefined, ttl is
\* resolved to 0 whatever ttl the caller gave and maxAge stays unset, so the
\* cookie save() builds has no Max-Age attribute; httpOnly, secure, sameSite lax
\* and path / keep their defaults unless the caller overrides them.
C14_SessionCookieConfig ==
    (/\ ResolvedFromArg
     /\ lastOp.arg.cookieOptions.given
     /\ lastOp.arg.cookieOptions.maxAgeKey = "undefined")
        => LET given == lastOp.arg.cookieOptions
               co == sessionConfig.cookieOptions
               cookie == serialize(sessionConfig.cookieName, SampleSeal, co)
           IN  /\ sessionConfig.ttl = 0
               /\ co.maxAgeKey = "undefined"
               /\ cookie.attrs.maxAgeKey # "set"
               /\ cookie.len = CookieNameLen(sessionConfig.cookieName) + 1
                               + EncodedValueLen(SampleSeal)
                               + 8 + 10 + (IF co.secure THEN 8 ELSE 0) + 14
               /\ co.httpOnly = TRUE
               /\ co.sameSite = "lax"
               /\ co.path = "/"
               /\ co.secure = IF given.secureKey = "set" THEN given.secure ELSE TRUE

\* updateConfig with ttl 3600 and cookieOptions { maxAge: undefined, secure: false }
C14_Witness ==
    /\ lastOp.op = "updateConfig"
    /\ lastOp.arg.ttlKey = "set"
    /\ lastOp.arg.ttl = 3600
    /\ lastOp.arg.cookieOptions.maxAgeKey = "undefined"
    /\ sessionConfig.ttl = 0
    /\ sessionConfig.cookieOptions.secure = FALSE

\* C15: updateConfig(newOptions) changes only the configuration: the fields stay,
\* no cookie is written, nothing is sealed and nothing is validated; the
\* configuration changes at no other call, and a later save() or destroy()
\* takes cookie name, ttl and attributes as resolved from newOptions.
C15_UpdateConfigOnlyConfig ==
    [][/\ lastOp'.op = "updateConfig"
           => /\ lastOp'.outcome = Return(Nothing)
              /\ sessionConfig' = getSessionConfig(lastOp'.arg)
              /\ session' = session
              /\ emitted' = emitted
              /\ header' = header
              /\ sealArg' = NoValue
              /\ pc' = pc
       /\ lastOp'.op \in {"write", "delete", "sendHeaders", "save", "destroy"}
           => sessionConfig' = sessionConfig
       /\ lastOp'.op = "destroy"
           => LET cookie == emitted'[Len(emitted')]
              IN  /\ cookie.name = sessionConfig.cookieName
                  /\ cookie.attrs = [sessionConfig.cookieOptions EXCEPT
                                         !.maxAgeKey = "set", !.maxAge = 0]
       /\ (lastOp'.op = "save" /\ emitted' # emitted)
           => LET cookie == emitted'[Len(emitted')]
              IN  /\ cookie.name = sessionConfig.cookieName
                  /\ cookie.attrs = sessionConfig.cookieOptions]_vars

\* destroy() after updateConfig took another cookie name than the load did,
\* together with a password of 31 characters that getIronSession refuses
C15_Witness ==
    /\ lastOp.op = "destroy"
    /\ options.cookieName = "sid"
    /\ sessionConfig.cookieName = "sid2"
    /\ sessionConfig.password = PwS
    /\ LastCookie.name = "sid2"
    /\ lastOp.fields # EmptyFields

\* what save() of each transport does in the current state
SaveOfReqRes ==
    saveReqRes(sessionConfig, session, loadedFields,
               normalizeStringPasswordToMap(options.password), resKind, headersSent,
               emitted, header)

SaveOfStore ==
    saveStore(sessionConfig, session, loadedFields,
              normalizeStringPasswordToMap(options.password), emitted)

\* C16: from the same inbound cookie, options and calls, the request/response
\* form and the cookie-store form load the same session, accept and refuse the
\* same save() calls, the size guard included, and write cookies of the same
\* name, value and attributes.
C16_TransportEquivalence ==
    /\ pc = "unloaded"
        => getIronSession(options, inbound)
           = getIronSessionFromCookieStore(options, inbound)
    /\ pc = "loaded"
        => /\ SaveOfReqRes.outcome.kind = SaveOfStore.outcome.kind
           /\ SaveOfReqRes.emitted = SaveOfStore.emitted
           /\ (~headersSent => SaveOfReqRes.sealArg = SaveOfStore.sealArg)
    /\ lastOp.op = "destroy"
        => /\ LastCookie.name = sessionConfig.cookieName
           /\ LastCookie.value = EmptyString
           /\ LastCookie.attrs = [sessionConfig.cookieOptions EXCEPT
                                      !.maxAgeKey = "set", !.maxAge = 0]
           /\ (transport = "reqres" => header.values[Len(header.values)] = LastCookie)

\* a save() the cookie-store form refused for its size, in a state where the
\* request/response form refuses it for its size too
C16_Witness ==
    /\ lastOp.op = "save"
    /\ transport = "store"
    /\ lastOp.outcome = Throw("Error", MsgTooBig)
    /\ SaveOfReqRes.outcome = Throw("Error", MsgTooBig)
    /\ sessionConfig.cookieOptions.secure = FALSE
    /\ Cardinality(DOMAIN session) = 1

\* C17: destroy() does not end the session: its operations stay callable and
\* field writes are accepted; a save() after destroy() seals exactly the fields
\* written since the destroy (none, if none was written), and no field from
\* before the destroy comes back.
C17_DestroyNotTerminal ==
    sinceDestroy.active
        => /\ pc = "loaded"
           /\ session = sinceDestroy.written
           /\ (lastOp.op = "destroy" => session = EmptyFields)
           /\ (lastOp.op = "save" /\ sealArg # NoValue)
                => /\ sealArg.fields = sinceDestroy.written
                   /\ sealArg.t = "object"
           /\ (lastOp.op = "destroy" /\ Len(emitted) < MaxEmitted)
                => (ENABLED Save /\ ENABLED Destroy /\ ENABLED UpdateConfig
                    /\ ENABLED SetField)

\* save() after a destroy() that removed fields and one write since
C17_Witness ==
    /\ sinceDestroy.active
    /\ sinceDestroy.had
    /\ lastOp.op = "save"
    /\ sealArg # NoValue
    /\ sealArg.fields = [role |-> 7]
    /\ "userId" \notin DOMAIN session

\* the set-cookie values a header holds, in order
HeaderValues(h) ==
    IF h.form = "absent" THEN <<>>
    ELSE IF h.form = "single" THEN <<h.values[1]>>
    ELSE h.values

\* C18: on a Node response each successful save() or destroy() adds exactly one
\* value to the end of the Set-Cookie header and keeps the values already there
\* in their order (one earlier value that is not a list becomes the first
\* element): after n calls the header is the earlier values followed by the n
\* cookies in call order.
C18_SetCookieAccumulation ==
    (transport = "reqres" /\ resKind = "node")
        => IF emitted = <<>>
           THEN header = priorHeader
           ELSE /\ header.form = "list"
                /\ header.values = HeaderValues(priorHeader) \o emitted
                /\ Len(header.values) = Len(HeaderValues(priorHeader)) + Len(emitted)

\* two destroy() calls on a Node response whose header held one plain value
C18_Witness ==
    /\ transport = "reqres"
    /\ resKind = "node"
    /\ priorHeader.form = "single"
    /\ Len(emitted) = 2
    /\ header = ListHeader(<<OtherCookie(1), emitted[1], emitted[2]>>)

----------------------------------------------------------------------------
\* Claims about the errors and the options of the seal path

\* the message starts with one of the five seal-problem texts
SealProblemMessage(msg) ==
    \/ StartsWith(msg, <<"Invalid", "signature">>)
    \/ StartsWith(msg, <<"Invalid", "seal", "format">>)
    \/ StartsWith(msg, <<"Bad", "hmac", "value">>)
    \/ StartsWith(msg, <<"Cannot", "find", "password">>)
    \/ StartsWith(msg, <<"Incorrect", "number", "of", "sealed", "components">>)

\* what decoding, verifying and decrypting the current token comes to
TryOfToken == UnsealTry(parseSeal(token).value.sealWithoutVersion)

\* C19: an exception raised while unsealData decodes, verifies or decrypts
\* becomes the empty value exactly when its message starts with one of the five
\* seal-problem texts; every other exception reaches the caller as it was
\* thrown, and the caller of getIronSession, which then returns no session.
C19_ErrorClassification ==
    Unsealed
        => /\ (TryOfToken.kind = "throw" /\ SealProblemMessage(TryOfToken.error.message))
                => unsealOut = Return(EmptyObject)
           /\ (TryOfToken.kind = "throw" /\ ~SealProblemMessage(TryOfToken.error.message))
                => unsealOut = TryOfToken
           /\ (unsealOut.kind = "throw")
                => /\ getIronSession(MakeOptions("sid", unsealPw, "absent", 0, CoAbsent),
                                     token) = unsealOut
                   /\ getIronSessionFromCookieStore(
                          MakeOptions("sid", unsealPw, "absent", 0, CoAbsent),
                          token) = unsealOut

\* a token whose payload is the JSON text null: the TypeError of reading a
\* property of null is not a seal problem and comes out of unsealData
C19_Witness ==
    /\ Unsealed
    /\ origin = "forged"
    /\ TryOfToken.kind = "throw"
    /\ TryOfToken.error.name = "TypeError"
    /\ unsealOut = TryOfToken

\* the options a caller can hand to sealData and unsealData
SealOptionChoices ==
    {[password |-> pw, ttl |-> ttl] :
        pw \in ValidPasswords \cup {PwS},
        ttl \in {0, timestampSkewSec, fourteenDaysInSeconds}}

====
